---------------------------- MODULE Spec2Model ----------------------------
(***************************************************************************)
(* Telegram channel status issues (collectTelegramStatusIssues and its     *)
(* readers and classifiers) and the Telegram API error-logging wrapper     *)
(* (withTelegramApiErrorLogging).                                          *)
(*                                                                         *)
(* JavaScript values are records [t, b, n, s]: t is the value's type tag,  *)
(* b its boolean, n its number, s its string as a sequence of characters.  *)
(* Text built by template literals is the sequence of its pieces: a        *)
(* literal piece of the template is one token, an interpolated string its  *)
(* characters, an interpolated number its decimal rendering.               *)
(***************************************************************************)
EXTENDS Integers, Sequences, FiniteSets, TLC

VARIABLES accounts, idx, issues, pc, call, wpc, caught, events, outcome

vars == <<accounts, idx, issues, pc, call, wpc, caught, events, outcome>>

collectVars == <<accounts, idx, issues, pc>>

wrapperVars == <<call, wpc, caught, events, outcome>>

(***************************************************************************)
(* Bounds of the model.                                                    *)
(***************************************************************************)
MaxAccounts == 2

MaxGroups == 2

(***************************************************************************)
(* JavaScript values.                                                      *)
(***************************************************************************)
Undef == [t |-> "undefined", b |-> FALSE, n |-> 0, s |-> <<>>]

Null == [t |-> "null", b |-> FALSE, n |-> 0, s |-> <<>>]

Bool(v) == [t |-> "boolean", b |-> v, n |-> 0, s |-> <<>>]

Num(v) == [t |-> "number", b |-> FALSE, n |-> v, s |-> <<>>]

NaN == [t |-> "nan", b |-> FALSE, n |-> 0, s |-> <<>>]

Str(v) == [t |-> "string", b |-> FALSE, n |-> 0, s |-> v]

\* typeof v === "number" && Number.isFinite(v)
IsFiniteNumber(v) == v.t = "number"

\* JavaScript truthiness of a scalar
Truthy(v) ==
  CASE v.t = "boolean" -> v.b
    [] v.t = "number" -> v.n # 0
    [] v.t = "string" -> Len(v.s) > 0
    [] v.t \in {"object", "array"} -> TRUE
    [] OTHER -> FALSE

\* a ?? b
Coalesce(a, b) == IF a.t \in {"undefined", "null"} THEN b ELSE a

UpperChars == <<"A", "B", "C", "D", "E", "F", "G", "H", "I", "J", "K", "L", "M", "N", "O", "P", "Q", "R", "S", "T", "U", "V", "W", "X", "Y", "Z">>

LowerChars == <<"a", "b", "c", "d", "e", "f", "g", "h", "i", "j", "k", "l", "m", "n", "o", "p", "q", "r", "s", "t", "u", "v", "w", "x", "y", "z">>

ToLowerChar(c) ==
  IF \E k \in 1..Len(UpperChars) : UpperChars[k] = c
    THEN LowerChars[CHOOSE k \in 1..Len(UpperChars) : UpperChars[k] = c]
    ELSE c

\* String.prototype.toLowerCase
toLowerCase(s) == [k \in 1..Len(s) |-> ToLowerChar(s[k])]

\* String.prototype.includes
includes(s, p) ==
  \E k \in 0..(Len(s) - Len(p)) : \A j \in 1..Len(p) : s[k + j] = p[j]

(***************************************************************************)
(* Helpers imported from ./shared.js.                                      *)
(***************************************************************************)
isRecord(value) == value.t = "object"

asString(value) == IF value.t = "string" THEN value ELSE Undef

resolveEnabledConfiguredAccountId(account) ==
  IF /\ account.enabled = Bool(TRUE)
     /\ account.configured = Bool(TRUE)
     /\ account.accountId.t = "string"
     /\ Len(account.accountId.s) > 0
    THEN account.accountId
    ELSE Undef

appendMatchMetadata(message, matchKey, matchSource) ==
  IF matchKey.t = "undefined" /\ matchSource.t = "undefined"
    THEN message
    ELSE message \o <<" (">>
           \o (IF matchKey.t = "undefined" THEN <<>> ELSE <<"matchKey=">> \o matchKey.s)
           \o (IF matchKey.t = "undefined" \/ matchSource.t = "undefined" THEN <<>> ELSE <<" ">>)
           \o (IF matchSource.t = "undefined" THEN <<>> ELSE <<"matchSource=">> \o matchSource.s)
           \o <<")">>

(***************************************************************************)
(* Readers.                                                                *)
(***************************************************************************)
NoAccount == [t |-> "null"]

readTelegramAccountStatus(value) ==
  IF ~isRecord(value)
    THEN NoAccount
    ELSE [t |-> "object",
          accountId |-> value.accountId,
          enabled |-> value.enabled,
          configured |-> value.configured,
          allowUnmentionedGroups |-> value.allowUnmentionedGroups,
          audit |-> value.audit,
          probe |-> value.probe,
          running |-> value.running,
          connected |-> value.connected,
          lastError |-> value.lastError]

NoGroup ==
  [t |-> "null", chatId |-> Undef, ok |-> Undef, status |-> Undef,
   error |-> Undef, matchKey |-> Undef, matchSource |-> Undef]

\* the callback of groupsRaw.map
readGroupEntry(entry) ==
  IF ~isRecord(entry)
    THEN NoGroup
    ELSE LET chatId == asString(entry.chatId)
         IN IF ~Truthy(chatId)
              THEN NoGroup
              ELSE [t |-> "object",
                    chatId |-> chatId,
                    ok |-> IF entry.ok.t = "boolean" THEN entry.ok ELSE Undef,
                    status |-> Coalesce(asString(entry.status), Null),
                    error |-> Coalesce(asString(entry.error), Null),
                    matchKey |-> Coalesce(asString(entry.matchKey), Undef),
                    matchSource |-> Coalesce(asString(entry.matchSource), Undef)]

\* groupsRaw.map(...).filter(Boolean)
readGroupsNoFilter(elems) == [k \in 1..Len(elems) |-> readGroupEntry(elems[k])]

readGroups(elems) ==
  SelectSeq([k \in 1..Len(elems) |-> readGroupEntry(elems[k])],
            LAMBDA g : g.t # "null")

readTelegramGroupMembershipAuditSummary(value) ==
  IF ~isRecord(value)
    THEN [unresolvedGroups |-> Undef,
          hasWildcardUnmentionedGroups |-> Undef,
          groups |-> [t |-> "undefined", elems |-> <<>>]]
    ELSE [unresolvedGroups |->
            IF IsFiniteNumber(value.unresolvedGroups)
              THEN value.unresolvedGroups ELSE Undef,
          hasWildcardUnmentionedGroups |->
            IF value.hasWildcardUnmentionedGroups.t = "boolean"
              THEN value.hasWildcardUnmentionedGroups ELSE Undef,
          groups |->
            IF value.groups.t = "array"
              THEN [t |-> "array", elems |-> readGroups(value.groups.elems)]
              ELSE [t |-> "undefined", elems |-> <<>>]]

NoProbe == [t |-> "null", ok |-> Undef, status |-> Null, error |-> Null]

readTelegramProbeSummary(value) ==
  IF ~isRecord(value)
    THEN NoProbe
    ELSE [t |-> "object",
          ok |-> IF value.ok.t = "boolean" THEN value.ok ELSE Undef,
          status |-> IF IsFiniteNumber(value.status) THEN value.status ELSE Null,
          error |-> Coalesce(asString(value.error), Null)]

(***************************************************************************)
(* Signal classifiers.                                                     *)
(***************************************************************************)
\* errorText?.toLowerCase()
OptLower(errorText) ==
  IF errorText.t = "string" THEN Str(toLowerCase(errorText.s)) ELSE Undef

\* normalized?.includes(p) === true
OptIncludes(normalized, p) == normalized.t = "string" /\ includes(normalized.s, p)

isAuthErrorSummaryStatusOnly(errorText, status) ==
  status = Num(401) \/ status = Num(403)

isAuthErrorSummary(errorText, status) ==
  LET normalized == OptLower(errorText)
  IN \/ status = Num(401)
     \/ status = Num(403)
     \/ OptIncludes(normalized, <<"u", "n", "a", "u", "t", "h", "o", "r", "i", "z", "e", "d">>)
     \/ OptIncludes(normalized, <<"i", "n", "v", "a", "l", "i", "d", " ", "t", "o", "k", "e", "n">>)
     \/ OptIncludes(normalized, <<"n", "o", "t", " ", "a", "u", "t", "h", "o", "r", "i", "z", "e", "d">>)
     \/ OptIncludes(normalized, <<"b", "a", "d", " ", "r", "e", "q", "u", "e", "s", "t">>)

NetworkPatterns ==
  {<<"e", "c", "o", "n", "n", "r", "e", "f", "u", "s", "e", "d">>, <<"e", "c", "o", "n", "n", "r", "e", "s", "e", "t">>, <<"e", "n", "o", "t", "f", "o", "u", "n", "d">>, <<"e", "a", "i", "_", "a", "g", "a", "i", "n">>, <<"e", "t", "i", "m", "e", "d", "o", "u", "t">>,
   <<"n", "e", "t", ":", ":", "e", "r", "r">>, <<"g", "e", "t", "a", "d", "d", "r", "i", "n", "f", "o">>, <<"n", "e", "t", "w", "o", "r", "k", " ", "i", "s", " ", "d", "o", "w", "n">>, <<"s", "o", "c", "k", "e", "t", " ", "h", "a", "n", "g", " ", "u", "p">>,
   <<"f", "e", "t", "c", "h", " ", "f", "a", "i", "l", "e", "d">>, <<"d", "n", "s">>, <<"n", "e", "t", "w", "o", "r", "k">>, <<"t", "i", "m", "e", "o", "u", "t">>}

isNetworkErrorSummaryZeroAbsent(errorText, status) ==
  IF Truthy(status)
    THEN FALSE
    ELSE LET normalized == OptLower(errorText)
         IN IF ~Truthy(normalized)
              THEN TRUE
              ELSE \E p \in NetworkPatterns : includes(normalized.s, p)

isNetworkErrorSummaryNoEmptyTest(errorText, status) ==
  IF status.t \notin {"null", "undefined"}
    THEN FALSE
    ELSE LET normalized == OptLower(errorText)
         IN IF normalized.t # "string"
              THEN TRUE
              ELSE \E p \in NetworkPatterns : includes(normalized.s, p)

isNetworkErrorSummary(errorText, status) ==
  IF status.t \notin {"null", "undefined"}
    THEN FALSE
    ELSE LET normalized == OptLower(errorText)
         IN IF ~Truthy(normalized)
              THEN TRUE
              ELSE \E p \in NetworkPatterns : includes(normalized.s, p)

DnsPatterns ==
  {<<"c", "o", "u", "l", "d", " ", "n", "o", "t", " ", "r", "e", "s", "o", "l", "v", "e", " ", "h", "o", "s", "t">>, <<"e", "n", "o", "t", "f", "o", "u", "n", "d">>, <<"e", "a", "i", "_", "a", "g", "a", "i", "n">>, <<"g", "e", "t", "a", "d", "d", "r", "i", "n", "f", "o">>,
   <<"d", "n", "s">>, <<"n", "a", "m", "e", " ", "o", "r", " ", "s", "e", "r", "v", "i", "c", "e", " ", "n", "o", "t", " ", "k", "n", "o", "w", "n">>, <<"t", "e", "m", "p", "o", "r", "a", "r", "i", "l", "y", " ", "u", "n", "r", "e", "s", "o", "l", "v", "a", "b", "l", "e">>}

isDnsResolutionFailure(errorText) ==
  LET normalized == Coalesce(OptLower(errorText), Str(<<>>))
  IN \E p \in DnsPatterns : includes(normalized.s, p)

formatProbeIssueLabel(summary, kindLabel) ==
  LET status == IF summary.status.t \notin {"null", "undefined"}
                  THEN <<" (HTTP ", ToString(summary.status.n), ")">>
                  ELSE <<>>
  IN IF Truthy(summary.error)
       THEN IF kindLabel = "auth"
              THEN <<"Token validation failed">> \o status \o <<": ">> \o summary.error.s
              ELSE summary.error.s \o status
       ELSE IF kindLabel = "auth"
              THEN <<"Token validation failed">> \o status
              ELSE <<"Probe failed">> \o status

(***************************************************************************)
(* The checks of collectTelegramStatusIssues, in the order of the loop     *)
(* body.  Each yields the issues it pushes.                                *)
(***************************************************************************)
Issue(accountId, kind, message, fix) ==
  [channel |-> "telegram", accountId |-> accountId.s, kind |-> kind,
   message |-> message, fix |-> fix]

UnmentionedMessage ==
  "Config allows unmentioned group messages (requireMention=false). Telegram Bot API privacy mode will block most group messages unless disabled."

WildcardMessage ==
  "Telegram groups config uses \"*\" with requireMention=false; membership probing is not possible without explicit group IDs."

UnresolvedMessageHead ==
  "Some configured Telegram groups are not numeric IDs (unresolvedGroups="

GroupMessageHead == "Group "

GroupMessageTail == " not reachable by bot."

RuntimeMessageHead == "Telegram runtime disconnected"

AuthLabelHead == "Token validation failed"

NetworkProbeHead == "Telegram bot API probe is not reachable: "

GenericProbeHead == "Telegram bot probe failed: "

DnsProbeFix ==
  "Restore DNS/network access from this host to api.telegram.org (or set channels.telegram.proxy / OPENCLAW_TELEGRAM_PROXY)."

NetworkProbeFix ==
  "Check gateway network/DNS egress to api.telegram.org and retry after connectivity is restored."

GenericProbeFix ==
  "Verify the bot token and Telegram API access from the gateway host; restart gateway after any changes."

UnmentionedIssues(account, accountId) ==
  IF account.allowUnmentionedGroups = Bool(TRUE)
    THEN << Issue(accountId, "config", <<UnmentionedMessage>>,
              "In BotFather run /setprivacy → Disable for this bot (then restart the gateway).") >>
    ELSE <<>>

WildcardIssues(audit, accountId) ==
  IF audit.hasWildcardUnmentionedGroups = Bool(TRUE)
    THEN << Issue(accountId, "config", <<WildcardMessage>>,
              "Add explicit numeric group ids under channels.telegram.groups (or per-account groups) to enable probing.") >>
    ELSE <<>>

UnresolvedIssues(audit, accountId) ==
  IF Truthy(audit.unresolvedGroups) /\ audit.unresolvedGroups.n > 0
    THEN << Issue(accountId, "config",
              <<UnresolvedMessageHead, ToString(audit.unresolvedGroups.n),
                "). Membership probe can only check numeric group IDs.">>,
              "Use numeric chat IDs (e.g. -100...) as keys in channels.telegram.groups for requireMention=false groups.") >>
    ELSE <<>>

GroupIssue(group, accountId) ==
  LET status == IF Truthy(group.status) THEN <<" status=">> \o group.status.s ELSE <<>>
      err == IF Truthy(group.error) THEN <<": ">> \o group.error.s ELSE <<>>
      baseMessage == <<GroupMessageHead>> \o group.chatId.s \o <<GroupMessageTail>>
                       \o status \o err
  IN Issue(accountId, "runtime",
       appendMatchMetadata(baseMessage, group.matchKey, group.matchSource),
       "Invite the bot to the group, then DM the bot once (/start) and restart the gateway.")

RECURSIVE GroupIssuesOnlyOkFalse(_, _)
GroupIssuesOnlyOkFalse(groups, accountId) ==
  IF groups = <<>>
    THEN <<>>
    ELSE (IF Head(groups).ok = Bool(FALSE)
            THEN << GroupIssue(Head(groups), accountId) >>
            ELSE <<>>)
         \o GroupIssuesOnlyOkFalse(Tail(groups), accountId)

RECURSIVE GroupIssues(_, _)
GroupIssues(groups, accountId) ==
  IF groups = <<>>
    THEN <<>>
    ELSE (IF Head(groups).ok = Bool(TRUE)
            THEN <<>>
            ELSE << GroupIssue(Head(groups), accountId) >>)
         \o GroupIssues(Tail(groups), accountId)

\* group.ok on an element that is null is a TypeError
GroupLoopThrows(groups) == \E k \in 1..Len(groups) : groups[k].t = "null"

RuntimeIssue(lastError, accountId) ==
  LET isDnsIssue == isDnsResolutionFailure(Coalesce(lastError, Str(<<>>)))
  IN Issue(accountId, "runtime",
       <<RuntimeMessageHead>>
         \o (IF Truthy(lastError) THEN <<": ">> \o lastError.s ELSE <<".">>),
       IF isDnsIssue
         THEN "Restore DNS/network access from this host to api.telegram.org (or set channels.telegram.proxy / OPENCLAW_TELEGRAM_PROXY) and restart the gateway."
         ELSE "Check Telegram API connectivity and token validity, then restart the gateway.")

RuntimeIssuesConnectedNotFalse(account, accountId) ==
  IF account.running = Bool(TRUE) /\ account.connected = Bool(FALSE)
    THEN << RuntimeIssue(asString(account.lastError), accountId) >>
    ELSE <<>>

RuntimeIssues(account, accountId) ==
  LET running == account.running = Bool(TRUE)
      connected == account.connected = Bool(TRUE)
      lastError == asString(account.lastError)
  IN IF running /\ ~connected
       THEN << RuntimeIssue(lastError, accountId) >>
       ELSE <<>>

AuthProbeIssue(probe, accountId) ==
  Issue(accountId, "auth", formatProbeIssueLabel(probe, "auth"),
    "Update channels.telegram.* token from BotFather for this bot and restart the gateway.")

NetworkProbeIssue(probe, accountId) ==
  Issue(accountId, "runtime",
    <<NetworkProbeHead>> \o formatProbeIssueLabel(probe, "runtime"),
    IF isDnsResolutionFailure(Coalesce(probe.error, Undef))
      THEN DnsProbeFix
      ELSE NetworkProbeFix)

GenericProbeIssue(probe, accountId) ==
  Issue(accountId, "runtime",
    <<GenericProbeHead>> \o formatProbeIssueLabel(probe, "runtime"),
    GenericProbeFix)

ProbeIssuesNetworkFirst(probe, accountId) ==
  IF probe.t = "object" /\ probe.ok = Bool(FALSE)
    THEN IF isNetworkErrorSummary(Coalesce(probe.error, Undef), probe.status)
           THEN << NetworkProbeIssue(probe, accountId) >>
           ELSE IF isAuthErrorSummary(Coalesce(probe.error, Undef), probe.status)
                  THEN << AuthProbeIssue(probe, accountId) >>
                  ELSE << GenericProbeIssue(probe, accountId) >>
    ELSE <<>>

ProbeIssues(probe, accountId) ==
  IF probe.t = "object" /\ probe.ok = Bool(FALSE)
    THEN IF isAuthErrorSummary(Coalesce(probe.error, Undef), probe.status)
           THEN << AuthProbeIssue(probe, accountId) >>
           ELSE IF isNetworkErrorSummary(Coalesce(probe.error, Undef), probe.status)
                  THEN << NetworkProbeIssue(probe, accountId) >>
                  ELSE << GenericProbeIssue(probe, accountId) >>
    ELSE <<>>

\* the issues one iteration of the loop pushes for a gated account
AccountIssues(account, accountId) ==
  LET audit == readTelegramGroupMembershipAuditSummary(account.audit)
      probe == readTelegramProbeSummary(account.probe)
  IN UnmentionedIssues(account, accountId)
       \o WildcardIssues(audit, accountId)
       \o UnresolvedIssues(audit, accountId)
       \o GroupIssues(audit.groups.elems, accountId)
       \o RuntimeIssues(account, accountId)
       \o ProbeIssues(probe, accountId)

AccountThrows(account) ==
  GroupLoopThrows(readTelegramGroupMembershipAuditSummary(account.audit).groups.elems)

(***************************************************************************)
(* Inputs: account snapshots as the caller may pass them.                  *)
(***************************************************************************)
Entry(chatId, ok, status, error, matchKey, matchSource) ==
  [t |-> "object", chatId |-> chatId, ok |-> ok, status |-> status,
   error |-> error, matchKey |-> matchKey, matchSource |-> matchSource]

NonRecordEntry(tag) ==
  [t |-> tag, chatId |-> Undef, ok |-> Undef, status |-> Undef,
   error |-> Undef, matchKey |-> Undef, matchSource |-> Undef]

Arr(elems) == [t |-> "array", elems |-> elems]

NotArr(tag) == [t |-> tag, elems |-> <<>>]

Audit(unresolvedGroups, hasWildcardUnmentionedGroups, groups) ==
  [t |-> "object", unresolvedGroups |-> unresolvedGroups,
   hasWildcardUnmentionedGroups |-> hasWildcardUnmentionedGroups,
   groups |-> groups]

NonRecordAudit(tag) ==
  [t |-> tag, unresolvedGroups |-> Undef,
   hasWildcardUnmentionedGroups |-> Undef, groups |-> NotArr("undefined")]

Probe(ok, status, error) ==
  [t |-> "object", ok |-> ok, status |-> status, error |-> error]

NonRecordProbe(tag) == [t |-> tag, ok |-> Undef, status |-> Undef, error |-> Undef]

Snapshot(tag, accountId, enabled, configured, allowUnmentionedGroups, audit, probe, running, connected, lastError) ==
  [t |-> tag, accountId |-> accountId, enabled |-> enabled,
   configured |-> configured,
   allowUnmentionedGroups |-> allowUnmentionedGroups, audit |-> audit,
   probe |-> probe, running |-> running, connected |-> connected,
   lastError |-> lastError]

SeqsUpTo(S, n) == UNION {[1..k -> S] : k \in 0..n}

A1 == Str(<<"a", "1">>)

A2 == Str(<<"a", "2">>)

ErrorTexts ==
  {<<"U", "n", "a", "u", "t", "h", "o", "r", "i", "z", "e", "d">>, <<"i", "n", "v", "a", "l", "i", "d", " ", "t", "o", "k", "e", "n">>, <<"N", "o", "t", " ", "A", "u", "t", "h", "o", "r", "i", "z", "e", "d">>,
   <<"B", "a", "d", " ", "R", "e", "q", "u", "e", "s", "t", ":", " ", "c", "h", "a", "t", " ", "n", "o", "t", " ", "f", "o", "u", "n", "d">>, <<"U", "n", "a", "u", "t", "h", "o", "r", "i", "z", "e", "d", ":", " ", "f", "e", "t", "c", "h", " ", "f", "a", "i", "l", "e", "d">>,
   <<"c", "o", "n", "n", "e", "c", "t", " ", "E", "C", "O", "N", "N", "R", "E", "F", "U", "S", "E", "D", " ", "1", "4", "9", ".", "1", "5", "4", ".", "1", "6", "7", ".", "2", "2", "0", ":", "4", "4", "3">>, <<"E", "C", "O", "N", "N", "R", "E", "S", "E", "T">>,
   <<"g", "e", "t", "a", "d", "d", "r", "i", "n", "f", "o", " ", "E", "N", "O", "T", "F", "O", "U", "N", "D", " ", "a", "p", "i", ".", "t", "e", "l", "e", "g", "r", "a", "m", ".", "o", "r", "g">>, <<"E", "A", "I", "_", "A", "G", "A", "I", "N">>, <<"E", "T", "I", "M", "E", "D", "O", "U", "T">>,
   <<"n", "e", "t", ":", ":", "E", "R", "R", "_", "F", "A", "I", "L", "E", "D">>, <<"N", "e", "t", "w", "o", "r", "k", " ", "i", "s", " ", "d", "o", "w", "n">>, <<"s", "o", "c", "k", "e", "t", " ", "h", "a", "n", "g", " ", "u", "p">>, <<"f", "e", "t", "c", "h", " ", "f", "a", "i", "l", "e", "d">>,
   <<"D", "N", "S", " ", "l", "o", "o", "k", "u", "p", " ", "f", "a", "i", "l", "e", "d">>, <<"r", "e", "q", "u", "e", "s", "t", " ", "t", "i", "m", "e", "o", "u", "t">>, <<"C", "o", "u", "l", "d", " ", "n", "o", "t", " ", "r", "e", "s", "o", "l", "v", "e", " ", "h", "o", "s", "t">>,
   <<"N", "a", "m", "e", " ", "o", "r", " ", "s", "e", "r", "v", "i", "c", "e", " ", "n", "o", "t", " ", "k", "n", "o", "w", "n">>, <<"t", "e", "m", "p", "o", "r", "a", "r", "i", "l", "y", " ", "u", "n", "r", "e", "s", "o", "l", "v", "a", "b", "l", "e">>,
   <<"I", "n", "t", "e", "r", "n", "a", "l", " ", "S", "e", "r", "v", "e", "r", " ", "E", "r", "r", "o", "r">>, <<"F", "o", "r", "b", "i", "d", "d", "e", "n">>, <<"T", "o", "o", " ", "M", "a", "n", "y", " ", "R", "e", "q", "u", "e", "s", "t", "s">>, <<>>}

GroupOk == Entry(Str(<<"-", "1", "0", "0">>), Bool(TRUE), Undef, Undef, Undef, Undef)

GroupKicked == Entry(Str(<<"-", "1", "0", "0">>), Bool(FALSE), Str(<<"k", "i", "c", "k", "e", "d">>), Undef, Undef, Undef)

GroupForbidden ==
  Entry(Str(<<"-", "2", "0", "0">>), Bool(FALSE), Null, Str(<<"F", "o", "r", "b", "i", "d", "d", "e", "n">>), Str(<<"*">>), Str(<<"w", "i", "l", "d", "c", "a", "r", "d">>))

GroupNoOk == Entry(Str(<<"-", "2", "0", "0">>), Undef, Undef, Undef, Undef, Undef)

GroupStringOk == Entry(Str(<<"-", "1", "0", "0">>), Str(<<"t", "r", "u", "e">>), Num(7), Undef, Str(<<"-", "1", "0", "0">>), Undef)

GroupEmptyId == Entry(Str(<<>>), Bool(FALSE), Undef, Undef, Undef, Undef)

GroupNumericId == Entry(Num(100), Bool(FALSE), Undef, Undef, Undef, Undef)

GroupEntries ==
  {GroupOk, GroupKicked, GroupForbidden, GroupNoOk, GroupStringOk,
   GroupEmptyId, GroupNumericId, NonRecordEntry("null")}

LoudAudit == Audit(Num(2), Bool(TRUE), Arr(<<GroupKicked>>))

LoudProbe == Probe(Bool(FALSE), Num(401), Str(<<"U", "n", "a", "u", "t", "h", "o", "r", "i", "z", "e", "d">>))

\* a gated snapshot with every check firing, except for the given fields
Loud(accountId, audit, probe) ==
  Snapshot("object", accountId, Bool(TRUE), Bool(TRUE), Bool(TRUE), audit,
           probe, Bool(TRUE), Bool(FALSE), Str(<<"D", "N", "S", " ", "l", "o", "o", "k", "u", "p", " ", "f", "a", "i", "l", "e", "d">>))

\* a gated snapshot with no check firing, except for the given fields
Quiet(accountId, audit, probe) ==
  Snapshot("object", accountId, Bool(TRUE), Bool(TRUE), Undef, audit,
           probe, Undef, Undef, Undef)

\* gate: every combination of accountId, enabled, configured, all checks firing
GateSnapshots ==
  {Snapshot("object", id, en, cf, Bool(TRUE), LoudAudit, LoudProbe,
            Bool(TRUE), Bool(FALSE), Str(<<"D", "N", "S", " ", "l", "o", "o", "k", "u", "p", " ", "f", "a", "i", "l", "e", "d">>)) :
     id \in {A1, A2, Str(<<>>), Undef, Null, Num(7)},
     en \in {Bool(TRUE), Bool(FALSE), Str(<<"t", "r", "u", "e">>), Num(1), Undef},
     cf \in {Bool(TRUE), Bool(FALSE), Str(<<"t", "r", "u", "e">>), Undef}}

\* entries of the input that are no records, carrying the same fields
NonRecordSnapshots ==
  {Snapshot(tag, A1, Bool(TRUE), Bool(TRUE), Bool(TRUE), LoudAudit, LoudProbe,
            Bool(TRUE), Bool(FALSE), Str(<<"D", "N", "S", " ", "l", "o", "o", "k", "u", "p", " ", "f", "a", "i", "l", "e", "d">>)) :
     tag \in {"null", "undefined", "string", "number", "array"}}

\* probes: every status and error text of a failed probe, and other ok values
ProbeValues ==
  {Probe(Bool(FALSE), st, er) :
     st \in {Undef, Null, Num(0), Num(401), Num(403), Num(404), Num(500), NaN,
             Str(<<"4", "0", "1">>)},
     er \in {Str(x) : x \in ErrorTexts} \cup {Undef, Null, Num(500)}}
  \cup {Probe(ok, st, er) :
     ok \in {Bool(TRUE), Undef, Str(<<"f", "a", "l", "s", "e">>), Num(0)},
     st \in {Undef, Num(401)},
     er \in {Undef, Str(<<"U", "n", "a", "u", "t", "h", "o", "r", "i", "z", "e", "d">>), Str(<<"E", "C", "O", "N", "N", "R", "E", "S", "E", "T">>)}}
  \cup {NonRecordProbe(tag) : tag \in {"undefined", "null", "string", "array"}}

ProbeSnapshots ==
  {Quiet(A1, Undef, p) : p \in ProbeValues}
  \cup {Loud(A2, LoudAudit, p) : p \in ProbeValues}

\* audits: every groups array up to MaxGroups, and malformed audits
AuditValues ==
  {Audit(f[1], f[2], Arr(g)) :
     f \in {<<Undef, Undef>>, <<Num(1), Bool(TRUE)>>},
     g \in SeqsUpTo(GroupEntries, MaxGroups)}
  \cup {Audit(Num(3), Str(<<"t", "r", "u", "e">>), NotArr(tag)) :
     tag \in {"undefined", "null", "string", "object"}}
  \cup {NonRecordAudit(tag) : tag \in {"undefined", "null", "string", "array"}}

AuditSnapshots ==
  {Quiet(A1, a, Undef) : a \in AuditValues}
  \cup {Loud(A2, a, LoudProbe) : a \in AuditValues}

\* runtime state: every combination of running, connected and lastError
RuntimeSnapshots ==
  {Snapshot("object", A1, Bool(TRUE), Bool(TRUE), Undef, Undef, Undef, r, c, e) :
     r \in {Bool(TRUE), Bool(FALSE), Str(<<"t", "r", "u", "e">>), Num(1), Undef},
     c \in {Bool(TRUE), Bool(FALSE), Str(<<"t", "r", "u", "e">>), Num(1), Undef},
     e \in {Undef, Null, Num(5), Str(<<>>), Str(<<"D", "N", "S", " ", "l", "o", "o", "k", "u", "p", " ", "f", "a", "i", "l", "e", "d">>),
            Str(<<"g", "e", "t", "a", "d", "d", "r", "i", "n", "f", "o", " ", "E", "N", "O", "T", "F", "O", "U", "N", "D", " ", "a", "p", "i", ".", "t", "e", "l", "e", "g", "r", "a", "m", ".", "o", "r", "g">>),
            Str(<<"C", "o", "u", "l", "d", " ", "n", "o", "t", " ", "r", "e", "s", "o", "l", "v", "e", " ", "h", "o", "s", "t">>), Str(<<"E", "C", "O", "N", "N", "R", "E", "S", "E", "T">>),
            Str(<<"U", "n", "a", "u", "t", "h", "o", "r", "i", "z", "e", "d">>)}}

\* every combination of the fields that drive the checks
MixedSnapshots ==
  {Snapshot("object", A1, Bool(TRUE), Bool(TRUE), al, Audit(un, wi, Arr(g)),
            p, r, c, Str(<<"E", "C", "O", "N", "N", "R", "E", "S", "E", "T">>)) :
     al \in {Bool(TRUE), Str(<<"t", "r", "u", "e">>), Undef},
     un \in {Num(2), Num(0), Num(-1), NaN},
     wi \in {Bool(TRUE), Bool(FALSE)},
     g \in {<<>>, <<GroupKicked, GroupOk>>, <<GroupNoOk>>},
     p \in {NonRecordProbe("undefined"), LoudProbe,
            Probe(Bool(FALSE), Undef, Str(<<"E", "C", "O", "N", "N", "R", "E", "S", "E", "T">>)),
            Probe(Bool(TRUE), Num(500), Undef)},
     r \in {Bool(TRUE), Undef},
     c \in {Bool(TRUE), Bool(FALSE)}}

Snapshots ==
  GateSnapshots \cup NonRecordSnapshots \cup ProbeSnapshots
    \cup AuditSnapshots \cup RuntimeSnapshots \cup MixedSnapshots

\* snapshots combined into inputs of several accounts
PoolSnapshots ==
  {Snapshot("null", A1, Bool(TRUE), Bool(TRUE), Bool(TRUE), LoudAudit,
            LoudProbe, Bool(TRUE), Bool(FALSE), Undef),
   Snapshot("object", A1, Bool(FALSE), Bool(TRUE), Bool(TRUE), LoudAudit,
            LoudProbe, Bool(TRUE), Bool(FALSE), Undef),
   Snapshot("object", A2, Bool(TRUE), Str(<<"t", "r", "u", "e">>), Bool(TRUE), LoudAudit,
            LoudProbe, Bool(TRUE), Bool(FALSE), Undef),
   Quiet(A1, Undef, Undef),
   Loud(A1, LoudAudit, LoudProbe),
   Quiet(A2, Audit(Undef, Undef, Arr(<<GroupKicked, GroupForbidden>>)),
         Probe(Bool(FALSE), Undef, Str(<<"E", "C", "O", "N", "N", "R", "E", "S", "E", "T">>))),
   Quiet(A2, Undef, Probe(Bool(FALSE), Num(500), Undef)),
   Loud(A2, Undef, Undef)}

Inputs ==
  {<<a>> : a \in Snapshots}
    \cup {s \in SeqsUpTo(PoolSnapshots, MaxAccounts) : Len(s) # 1}

(***************************************************************************)
(* collectTelegramStatusIssues: the loop over the accounts.                *)
(***************************************************************************)
WrapperIdle ==
  /\ call = [operation |-> "none", fn |-> "none", value |-> "none",
             runtime |-> FALSE, handler |-> "absent", runtimeError |-> "absent",
             logger |-> "absent", shouldLog |-> "absent"]
  /\ wpc = "idle"
  /\ caught = "none"
  /\ events = <<>>
  /\ outcome = [kind |-> "pending", value |-> "none"]

Init ==
  /\ accounts \in Inputs
  /\ idx = 1
  /\ issues = <<>>
  /\ pc = "loop"
  /\ WrapperIdle

\* readTelegramAccountStatus(entry) is null: continue
SkipNotRecord ==
  /\ pc = "loop"
  /\ idx <= Len(accounts)
  /\ readTelegramAccountStatus(accounts[idx]).t = "null"
  /\ idx' = idx + 1
  /\ UNCHANGED <<accounts, issues, pc>>
  /\ UNCHANGED wrapperVars

\* the gate of the loop body: !accountId
GateFailsAlwaysOpen(account) == FALSE

GateFails(account) == ~Truthy(resolveEnabledConfiguredAccountId(account))

\* resolveEnabledConfiguredAccountId(account) is empty: continue
SkipNotGated ==
  /\ pc = "loop"
  /\ idx <= Len(accounts)
  /\ LET account == readTelegramAccountStatus(accounts[idx])
     IN /\ account.t # "null"
        /\ GateFails(account)
  /\ idx' = idx + 1
  /\ UNCHANGED <<accounts, issues, pc>>
  /\ UNCHANGED wrapperVars

\* issues.push of one iteration
PushAllAtFront(list, new) == new \o list

PushAll(list, new) == list \o new

\* the rest of the loop body, for a gated account
Diagnose ==
  /\ pc = "loop"
  /\ idx <= Len(accounts)
  /\ LET account == readTelegramAccountStatus(accounts[idx])
     IN /\ account.t # "null"
        /\ ~GateFails(account)
        /\ LET accountId == resolveEnabledConfiguredAccountId(account)
           IN IF AccountThrows(account)
                THEN /\ pc' = "threw"
                     /\ UNCHANGED <<idx, issues>>
                ELSE /\ issues' = PushAll(issues, AccountIssues(account, accountId))
                     /\ idx' = idx + 1
                     /\ pc' = pc
  /\ UNCHANGED accounts
  /\ UNCHANGED wrapperVars

\* return issues
Return ==
  /\ pc = "loop"
  /\ idx > Len(accounts)
  /\ pc' = "done"
  /\ UNCHANGED <<accounts, idx, issues>>
  /\ UNCHANGED wrapperVars

Next == SkipNotRecord \/ SkipNotGated \/ Diagnose \/ Return

Spec == Init /\ [][Next]_vars

(***************************************************************************)
(* withTelegramApiErrorLogging.  A call is its parameters: what fn does,   *)
(* whether a runtime is given and what its setTelegramApiErrorStatus and   *)
(* error members are, the explicit logger, and shouldLog.  A callback      *)
(* either returns or throws.                                               *)
(***************************************************************************)
Calls ==
  {c \in [operation : {"sendMessage", "getMe"},
          fn : {"resolves", "rejects"},
          value : {"x1", "x2"},
          runtime : BOOLEAN,
          handler : {"absent", "notFunction", "returns", "throws"},
          runtimeError : {"absent", "returns", "throws"},
          logger : {"absent", "returns", "throws"},
          shouldLog : {"absent", "true", "false", "throws"}] :
     ~c.runtime => (c.handler = "absent" /\ c.runtimeError = "absent")}

CollectIdle ==
  /\ accounts = <<>>
  /\ idx = 1
  /\ issues = <<>>
  /\ pc = "idle"

InitLog ==
  /\ CollectIdle
  /\ call \in Calls
  /\ wpc = "call"
  /\ caught = "none"
  /\ events = <<>>
  /\ outcome = [kind |-> "pending", value |-> "none"]

Event(who, operation, err) == [who |-> who, operation |-> operation, err |-> err]

resolveTelegramApiLoggerRuntimeFirst(c) ==
  IF c.runtime /\ c.runtimeError # "absent"
    THEN "runtime.error"
    ELSE IF c.logger # "absent" THEN "logger" ELSE "fallbackLogger"

\* which logger is used, and (LoggerThrows) whether calling it throws
resolveTelegramApiLogger(c) ==
  IF c.logger # "absent"
    THEN "logger"
    ELSE IF c.runtime /\ c.runtimeError # "absent"
           THEN "runtime.error"
           ELSE "fallbackLogger"

LoggerThrows(c, which) ==
  \/ which = "logger" /\ c.logger = "throws"
  \/ which = "runtime.error" /\ c.runtimeError = "throws"

\* the handler, when runtime gives one that is a function
resolveTelegramApiErrorStatus(c) ==
  IF c.runtime /\ c.handler \in {"returns", "throws"} THEN c.handler ELSE "undefined"

\* try { return await fn() } catch (err)
AwaitFn ==
  /\ wpc = "call"
  /\ IF call.fn = "resolves"
       THEN /\ outcome' = [kind |-> "resolved", value |-> call.value]
            /\ wpc' = "done"
            /\ UNCHANGED caught
       ELSE /\ caught' = call.value
            /\ wpc' = "status"
            /\ UNCHANGED outcome
  /\ UNCHANGED <<call, events>>
  /\ UNCHANGED collectVars

\* resolveTelegramApiErrorStatus(runtime)?.({ operation, err })
ReportStatus ==
  /\ wpc = "status"
  /\ LET handler == resolveTelegramApiErrorStatus(call)
     IN IF handler = "undefined"
          THEN /\ wpc' = "shouldLog"
               /\ UNCHANGED <<events, outcome>>
          ELSE /\ events' = Append(events, Event("setTelegramApiErrorStatus", call.operation, caught))
               /\ IF handler = "throws"
                    THEN /\ outcome' = [kind |-> "rejected", value |-> "thrownByStatusHandler"]
                         /\ wpc' = "done"
                    ELSE /\ wpc' = "shouldLog"
                         /\ UNCHANGED outcome
  /\ UNCHANGED <<call, caught>>
  /\ UNCHANGED collectVars

\* if (!shouldLog || shouldLog(err))
ShouldLog ==
  /\ wpc = "shouldLog"
  /\ IF call.shouldLog = "absent"
       THEN /\ wpc' = "log"
            /\ UNCHANGED <<events, outcome>>
       ELSE /\ events' = Append(events, Event("shouldLog", "none", caught))
            /\ IF call.shouldLog = "throws"
                 THEN /\ outcome' = [kind |-> "rejected", value |-> "thrownByShouldLog"]
                      /\ wpc' = "done"
                 ELSE /\ wpc' = IF call.shouldLog = "true" THEN "log" ELSE "rethrow"
                      /\ UNCHANGED outcome
  /\ UNCHANGED <<call, caught>>
  /\ UNCHANGED collectVars

\* log(danger(`telegram ${operation} failed: ${errText}`))
Log ==
  /\ wpc = "log"
  /\ LET log == resolveTelegramApiLogger(call)
     IN /\ events' = Append(events, Event(log, call.operation, caught))
        /\ IF LoggerThrows(call, log)
             THEN /\ outcome' = [kind |-> "rejected", value |-> "thrownByLogger"]
                  /\ wpc' = "done"
             ELSE /\ wpc' = "rethrow"
                  /\ UNCHANGED outcome
  /\ UNCHANGED <<call, caught>>
  /\ UNCHANGED collectVars

\* throw err
Rethrow ==
  /\ wpc = "rethrow"
  /\ outcome' = [kind |-> "rejected", value |-> caught]
  /\ wpc' = "done"
  /\ UNCHANGED <<call, caught, events>>
  /\ UNCHANGED collectVars

NextLog == AwaitFn \/ ReportStatus \/ ShouldLog \/ Log \/ Rethrow

SpecLog == InitLog /\ [][NextLog]_vars

(***************************************************************************)
(* What the properties below read off the input and the output.            *)
(***************************************************************************)
\* the input entry passes the gate: a record, enabled and configured
\* strictly true, accountId a non-empty string
PassesGate(e) ==
  /\ e.t = "object"
  /\ e.enabled = Bool(TRUE)
  /\ e.configured = Bool(TRUE)
  /\ e.accountId.t = "string"
  /\ e.accountId.s # <<>>

\* the check an issue of the output comes from, by the head of its message
CheckOf(issue) ==
  LET head == issue.message[1]
  IN CASE head = UnmentionedMessage -> 1
       [] head = WildcardMessage -> 2
       [] head = UnresolvedMessageHead -> 3
       [] head = GroupMessageHead -> 4
       [] head = RuntimeMessageHead -> 5
       [] head \in {AuthLabelHead, NetworkProbeHead, GenericProbeHead} -> 6
       [] OTHER -> 0

Only(list, check) == SelectSeq(list, LAMBDA i : CheckOf(i) = check)

Others(list, check) == SelectSeq(list, LAMBDA i : CheckOf(i) # check)

\* the group entries of the input that the audit reader keeps
ValidGroups(e) ==
  IF e.audit.t = "object" /\ e.audit.groups.t = "array"
    THEN SelectSeq(e.audit.groups.elems,
                   LAMBDA g : g.t = "object" /\ g.chatId.t = "string" /\ g.chatId.s # <<>>)
    ELSE <<>>

FailingGroups(e) == SelectSeq(ValidGroups(e), LAMBDA g : g.ok # Bool(TRUE))

AllowsUnmentioned(e) == e.allowUnmentionedGroups = Bool(TRUE)

HasWildcard(e) ==
  e.audit.t = "object" /\ e.audit.hasWildcardUnmentionedGroups = Bool(TRUE)

HasUnresolved(e) ==
  /\ e.audit.t = "object"
  /\ e.audit.unresolvedGroups.t = "number"
  /\ e.audit.unresolvedGroups.n > 0

RunningNotConnected(e) == e.running = Bool(TRUE) /\ e.connected # Bool(TRUE)

ProbeFailed(e) == e.probe.t = "object" /\ e.probe.ok = Bool(FALSE)

Ind(b) == IF b THEN 1 ELSE 0

\* the number of issues the entry is to contribute
ExpectedCount(e) ==
  IF PassesGate(e)
    THEN Ind(AllowsUnmentioned(e)) + Ind(HasWildcard(e)) + Ind(HasUnresolved(e))
           + Len(FailingGroups(e)) + Ind(RunningNotConnected(e))
           + Ind(ProbeFailed(e))
    ELSE 0

RECURSIVE ExpectedTotal(_, _)
ExpectedTotal(list, n) ==
  IF n = 0 THEN 0 ELSE ExpectedTotal(list, n - 1) + ExpectedCount(list[n])

\* the call has returned for an input of one entry, which passed the gate
DoneOne == pc = "done" /\ Len(accounts) = 1 /\ PassesGate(accounts[1])

\* the probe's error text and status as the probe check is to see them
ProbeText(e) == IF e.probe.error.t = "string" THEN e.probe.error.s ELSE <<>>

ProbeHasText(e) == e.probe.error.t = "string"

ProbeHasStatus(e) == e.probe.status.t = "number"

ContainsAny(text, patterns) ==
  \E p \in patterns : includes(toLowerCase(text), p)

AuthPhrases ==
  {<<"u", "n", "a", "u", "t", "h", "o", "r", "i", "z", "e", "d">>, <<"i", "n", "v", "a", "l", "i", "d", " ", "t", "o", "k", "e", "n">>, <<"n", "o", "t", " ", "a", "u", "t", "h", "o", "r", "i", "z", "e", "d">>, <<"b", "a", "d", " ", "r", "e", "q", "u", "e", "s", "t">>}

IsAuthProbe(e) ==
  \/ ProbeHasStatus(e) /\ e.probe.status.n \in {401, 403}
  \/ ProbeHasText(e) /\ ContainsAny(ProbeText(e), AuthPhrases)

(***************************************************************************)
(* C1: an entry that does not pass the gate (not a record, enabled or      *)
(* configured not strictly true, accountId not a non-empty string)         *)
(* contributes no issue, whatever its other fields hold: after any number  *)
(* of entries, the output holds only the issues of the entries that passed *)
(* the gate, each carrying the accountId of such an entry.                 *)
(***************************************************************************)
GateExcludesAccount ==
  pc # "threw" =>
    /\ Len(issues) = ExpectedTotal(accounts, idx - 1)
    /\ (\A k \in 1..(idx - 1) : ~PassesGate(accounts[k])) => issues = <<>>
    /\ \A j \in 1..Len(issues) :
         \E k \in 1..(idx - 1) :
           PassesGate(accounts[k]) /\ accounts[k].accountId.s = issues[j].accountId

\* a record with every check's field set fails the gate beside an entry
\* that passes it and has issues
GateExcludesAccountWitness ==
  /\ pc = "done"
  /\ Len(accounts) = 2
  /\ accounts[1].t = "object" /\ ~PassesGate(accounts[1])
  /\ AllowsUnmentioned(accounts[1]) /\ ProbeFailed(accounts[1])
  /\ PassesGate(accounts[2])
  /\ Len(issues) = ExpectedCount(accounts[2])
  /\ Len(issues) > 0

(***************************************************************************)
(* C2: for a gated account the probe check contributes at most one issue,  *)
(* and one only when the probe is a record whose ok is exactly false; the  *)
(* branch is the first match in the order auth, network, generic.          *)
(***************************************************************************)
ProbeBranchFirstMatch ==
  DoneOne =>
    LET e == accounts[1]
        found == Only(issues, 6)
        text == IF ProbeHasText(e) THEN e.probe.error ELSE Undef
        status == IF ProbeHasStatus(e) THEN e.probe.status ELSE Null
    IN /\ Len(found) <= 1
       /\ Len(found) = 1 <=> ProbeFailed(e)
       /\ Len(found) = 1 =>
            IF isAuthErrorSummary(text, status)
              THEN found[1].kind = "auth" /\ found[1].message[1] = AuthLabelHead
              ELSE IF isNetworkErrorSummary(text, status)
                     THEN found[1].kind = "runtime"
                          /\ found[1].message[1] = NetworkProbeHead
                     ELSE found[1].kind = "runtime"
                          /\ found[1].message[1] = GenericProbeHead

\* a failed probe whose text is both an auth and a network text
ProbeBranchFirstMatchWitness ==
  /\ DoneOne
  /\ ProbeFailed(accounts[1])
  /\ ~ProbeHasStatus(accounts[1])
  /\ ContainsAny(ProbeText(accounts[1]), AuthPhrases)
  /\ ContainsAny(ProbeText(accounts[1]), {<<"f", "e", "t", "c", "h", " ", "f", "a", "i", "l", "e", "d">>})
  /\ Len(Only(issues, 6)) = 1
  /\ issues[Len(issues)].kind = "auth"

(***************************************************************************)
(* C3: every group entry (a record with a non-empty string chatId) whose   *)
(* ok is not exactly true yields exactly one runtime issue naming its      *)
(* chatId, entries with ok true yield none, duplicates are kept, and the   *)
(* issues are in the order of the entries.                                 *)
(***************************************************************************)
GroupIssuePerFailingEntry ==
  DoneOne =>
    LET failing == FailingGroups(accounts[1])
        found == Only(issues, 4)
    IN /\ Len(found) = Len(failing)
       /\ \A j \in 1..Len(found) :
            LET chatId == failing[j].chatId.s
            IN /\ found[j].kind = "runtime"
               /\ Len(found[j].message) >= Len(chatId) + 2
               /\ SubSeq(found[j].message, 2, Len(chatId) + 1) = chatId
               /\ found[j].message[Len(chatId) + 2] = GroupMessageTail

\* two failing entries with the same chatId, one of them without ok
GroupIssuePerFailingEntryWitness ==
  /\ DoneOne
  /\ Len(FailingGroups(accounts[1])) = 2
  /\ FailingGroups(accounts[1])[1].chatId = FailingGroups(accounts[1])[2].chatId
  /\ FailingGroups(accounts[1])[1].ok = Undef
  /\ FailingGroups(accounts[1])[2].ok = Bool(FALSE)
  /\ Len(Only(issues, 4)) = 2

(***************************************************************************)
(* C4: for a gated account each check fires exactly when its own field     *)
(* says so, whatever the fields of the other checks hold, and the number   *)
(* of issues is the sum of the five indicators and the failing entries.    *)
(***************************************************************************)
ChecksFireIndependently ==
  DoneOne =>
    LET e == accounts[1]
    IN /\ Len(Only(issues, 1)) = Ind(AllowsUnmentioned(e))
       /\ Len(Only(issues, 2)) = Ind(HasWildcard(e))
       /\ Len(Only(issues, 3)) = Ind(HasUnresolved(e))
       /\ Len(Only(issues, 5)) = Ind(RunningNotConnected(e))
       /\ Len(Only(issues, 6)) = Ind(ProbeFailed(e))
       /\ Len(Only(issues, 0)) = 0
       /\ Len(issues) = ExpectedCount(e)

\* only the wildcard, the runtime and a group check fire, the others not
ChecksFireIndependentlyWitness ==
  /\ DoneOne
  /\ ~AllowsUnmentioned(accounts[1])
  /\ HasWildcard(accounts[1])
  /\ ~HasUnresolved(accounts[1])
  /\ Len(FailingGroups(accounts[1])) = 1
  /\ RunningNotConnected(accounts[1])
  /\ ~ProbeFailed(accounts[1])
  /\ accounts[1].probe.t = "object"
  /\ Len(issues) = 3

(***************************************************************************)
(* C5: the output is the concatenation, in the order of the input, of the  *)
(* issues of each gated account, and within an account the issues are in   *)
(* the order of the checks.                                                *)
(***************************************************************************)
RECURSIVE IssuesUpTo(_, _)
IssuesUpTo(list, n) ==
  IF n = 0
    THEN <<>>
    ELSE IssuesUpTo(list, n - 1)
           \o (IF PassesGate(list[n])
                 THEN AccountIssues(list[n], list[n].accountId)
                 ELSE <<>>)

\* the entry each issue of the output comes from
RECURSIVE OwnerUpTo(_, _)
OwnerUpTo(list, n) ==
  IF n = 0
    THEN <<>>
    ELSE OwnerUpTo(list, n - 1) \o [j \in 1..ExpectedCount(list[n]) |-> n]

IssuesInAccountAndCheckOrder ==
  pc # "threw" =>
    LET owner == OwnerUpTo(accounts, idx - 1)
    IN /\ issues = IssuesUpTo(accounts, idx - 1)
       /\ Len(owner) = Len(issues)
       /\ \A j \in 1..Len(issues) :
            issues[j].accountId = accounts[owner[j]].accountId.s
       /\ \A j \in 1..(Len(issues) - 1) :
            owner[j] = owner[j + 1] => CheckOf(issues[j]) <= CheckOf(issues[j + 1])

\* two gated accounts of different ids, each with issues of several checks
IssuesInAccountAndCheckOrderWitness ==
  /\ pc = "done"
  /\ Len(accounts) = 2
  /\ PassesGate(accounts[1]) /\ PassesGate(accounts[2])
  /\ accounts[1].accountId # accounts[2].accountId
  /\ ExpectedCount(accounts[1]) >= 3
  /\ ExpectedCount(accounts[2]) >= 3
  /\ Len(issues) = ExpectedCount(accounts[1]) + ExpectedCount(accounts[2])
  /\ issues[1].accountId = accounts[1].accountId.s
  /\ issues[Len(issues)].accountId = accounts[2].accountId.s

(***************************************************************************)
(* C6: the auth classifier holds whenever the status is 401 or 403, with   *)
(* any or no error text, and otherwise exactly when the lower-cased text   *)
(* contains one of the four auth phrases.  Seen at the probe check: a      *)
(* failed probe yields the auth issue exactly in these cases.              *)
(***************************************************************************)
AuthClassifierByStatusOrPhrase ==
  DoneOne /\ ProbeFailed(accounts[1]) =>
    LET e == accounts[1]
        found == issues[Len(issues)]
    IN /\ Len(issues) > 0
       /\ found.kind = "auth" <=>
            \/ ProbeHasStatus(e) /\ e.probe.status.n = 401
            \/ ProbeHasStatus(e) /\ e.probe.status.n = 403
            \/ ProbeHasText(e) /\ ContainsAny(ProbeText(e), AuthPhrases)

\* status 403 without any error text
AuthClassifierByStatusOrPhraseWitness ==
  /\ DoneOne
  /\ ProbeFailed(accounts[1])
  /\ accounts[1].probe.status = Num(403)
  /\ ~ProbeHasText(accounts[1])
  /\ issues[Len(issues)].kind = "auth"

(***************************************************************************)
(* C7: the network classifier is false whenever a status is present, zero  *)
(* included: a failed probe that is not an auth failure and carries a      *)
(* finite numeric status yields the generic 'bot probe failed' issue with  *)
(* the generic fix, never the 'not reachable' issue, whatever its text.    *)
(***************************************************************************)
StatusPresentNeverNetwork ==
  DoneOne /\ ProbeFailed(accounts[1]) /\ ProbeHasStatus(accounts[1])
    /\ ~IsAuthProbe(accounts[1]) =>
      LET found == Only(issues, 6)
      IN /\ Len(found) = 1
         /\ found[1].kind = "runtime"
         /\ found[1].message[1] = GenericProbeHead
         /\ found[1].fix = GenericProbeFix

\* status 0 with a connection-refused text
StatusPresentNeverNetworkWitness ==
  /\ DoneOne
  /\ ProbeFailed(accounts[1])
  /\ accounts[1].probe.status = Num(0)
  /\ ContainsAny(ProbeText(accounts[1]), {<<"e", "c", "o", "n", "n", "r", "e", "f", "u", "s", "e", "d">>})
  /\ issues[Len(issues)].message[1] = GenericProbeHead

(***************************************************************************)
(* C8: with the status absent, the network classifier holds when there is  *)
(* no error text, and for a text exactly when its lower-cased form         *)
(* contains one of the connectivity indicators.  Seen at the probe check:  *)
(* a failed probe that is not an auth failure and has no status yields     *)
(* the 'not reachable' issue in these cases and the generic one otherwise. *)
(***************************************************************************)
ClaimedNetworkIndicators ==
  {<<"e", "c", "o", "n", "n", "r", "e", "f", "u", "s", "e", "d">>, <<"e", "c", "o", "n", "n", "r", "e", "s", "e", "t">>, <<"e", "n", "o", "t", "f", "o", "u", "n", "d">>, <<"e", "a", "i", "_", "a", "g", "a", "i", "n">>, <<"e", "t", "i", "m", "e", "d", "o", "u", "t">>,
   <<"f", "e", "t", "c", "h", " ", "f", "a", "i", "l", "e", "d">>, <<"g", "e", "t", "a", "d", "d", "r", "i", "n", "f", "o">>, <<"n", "e", "t", "w", "o", "r", "k", " ", "i", "s", " ", "d", "o", "w", "n">>, <<"s", "o", "c", "k", "e", "t", " ", "h", "a", "n", "g", " ", "u", "p">>,
   <<"d", "n", "s">>, <<"n", "e", "t", "w", "o", "r", "k">>, <<"t", "i", "m", "e", "o", "u", "t">>}

NoStatusProbe ==
  DoneOne /\ ProbeFailed(accounts[1]) /\ ~ProbeHasStatus(accounts[1])
    /\ ~IsAuthProbe(accounts[1])

\* the claim as stated: the twelve indicators, an empty text being a text
NetworkClassifierAsClaimed ==
  NoStatusProbe =>
    LET e == accounts[1]
        found == issues[Len(issues)]
    IN found.message[1] = NetworkProbeHead <=>
         \/ ~ProbeHasText(e)
         \/ ContainsAny(ProbeText(e), ClaimedNetworkIndicators)

\* as the code has it: an empty text counts as no text, and "net::err" is
\* an indicator too
NetworkClassifierWithEmptyAndNetErr ==
  NoStatusProbe =>
    LET e == accounts[1]
        found == issues[Len(issues)]
    IN /\ found.message[1] \in {NetworkProbeHead, GenericProbeHead}
       /\ found.message[1] = NetworkProbeHead <=>
            \/ ~ProbeHasText(e)
            \/ ProbeText(e) = <<>>
            \/ ContainsAny(ProbeText(e), ClaimedNetworkIndicators \cup {<<"n", "e", "t", ":", ":", "e", "r", "r">>})

\* a net::ERR text without status
NetworkClassifierWitness ==
  /\ NoStatusProbe
  /\ accounts[1].probe.error = Str(<<"n", "e", "t", ":", ":", "E", "R", "R", "_", "F", "A", "I", "L", "E", "D">>)
  /\ issues[Len(issues)].message[1] = NetworkProbeHead

(***************************************************************************)
(* C9: malformed or absent fields.  One field of a gated snapshot is       *)
(* replaced by a value of the wrong type or by absence, and the issues of  *)
(* the snapshot as given are compared with those of the replaced one.      *)
(***************************************************************************)
BadBoolean == {Undef, Str(<<"t", "r", "u", "e">>)}

BadNumber == {Undef, Str(<<"2">>)}

BadString == {Undef, Num(1)}

Replaced(snap, checks, effect) == [snap |-> snap, checks |-> checks, effect |-> effect]

\* fields whose loss can only take the issues of their checks away
RemovingReplacements(e) ==
  {Replaced([e EXCEPT !.allowUnmentionedGroups = b], {1}, "removes") : b \in BadBoolean}
  \cup {Replaced([e EXCEPT !.running = b], {5}, "removes") : b \in BadBoolean}
  \cup {Replaced([e EXCEPT !.audit = NonRecordAudit(tag)], {2, 3, 4}, "removes") :
          tag \in {"undefined", "string"}}
  \cup {Replaced([e EXCEPT !.probe = NonRecordProbe(tag)], {6}, "removes") :
          tag \in {"undefined", "string"}}
  \cup (IF e.audit.t # "object" THEN {} ELSE
          {Replaced([e EXCEPT !.audit.hasWildcardUnmentionedGroups = b], {2}, "removes") :
             b \in BadBoolean}
          \cup {Replaced([e EXCEPT !.audit.unresolvedGroups = b], {3}, "removes") :
                  b \in BadNumber}
          \cup {Replaced([e EXCEPT !.audit.groups = NotArr(tag)], {4}, "removes") :
                  tag \in {"undefined", "string"}})
  \cup (IF e.audit.t # "object" \/ e.audit.groups.t # "array" THEN {} ELSE
          {Replaced([e EXCEPT !.audit.groups.elems[k] = NonRecordEntry(tag)], {4}, "removes") :
             k \in 1..Len(e.audit.groups.elems), tag \in {"undefined", "null"}}
          \cup {Replaced([e EXCEPT !.audit.groups.elems[k].chatId = b], {4}, "removes") :
                  k \in {j \in 1..Len(e.audit.groups.elems) :
                           e.audit.groups.elems[j].t = "object"},
                  b \in BadString})
  \cup (IF e.probe.t # "object" THEN {} ELSE
          {Replaced([e EXCEPT !.probe.ok = b], {6}, "removes") : b \in BadBoolean})

\* flags that count as not true when malformed: their loss can add an issue
AddingReplacements(e) ==
  {Replaced([e EXCEPT !.connected = b], {5}, "adds") : b \in BadBoolean}
  \cup (IF e.audit.t # "object" \/ e.audit.groups.t # "array" THEN {} ELSE
          {Replaced([e EXCEPT !.audit.groups.elems[k].ok = b], {4}, "adds") :
             k \in {j \in 1..Len(e.audit.groups.elems) :
                      e.audit.groups.elems[j].t = "object"},
             b \in BadBoolean})

\* texts and the probe status: their loss changes what an issue says or
\* which probe branch is taken, not how many issues there are
RewordingReplacements(e) ==
  {Replaced([e EXCEPT !.lastError = b], {5}, "rewords") : b \in BadString}
  \cup (IF e.audit.t # "object" \/ e.audit.groups.t # "array" THEN {} ELSE
          UNION {{Replaced([e EXCEPT !.audit.groups.elems[k].status = b], {4}, "rewords"),
                  Replaced([e EXCEPT !.audit.groups.elems[k].error = b], {4}, "rewords"),
                  Replaced([e EXCEPT !.audit.groups.elems[k].matchKey = b], {4}, "rewords"),
                  Replaced([e EXCEPT !.audit.groups.elems[k].matchSource = b], {4}, "rewords")} :
             k \in {j \in 1..Len(e.audit.groups.elems) :
                      e.audit.groups.elems[j].t = "object"},
             b \in BadString})
  \cup (IF e.probe.t # "object" THEN {} ELSE
          {Replaced([e EXCEPT !.probe.status = b], {6}, "rewords") : b \in BadNumber}
          \cup {Replaced([e EXCEPT !.probe.error = b], {6}, "rewords") : b \in BadString})

Replacements(e) ==
  RemovingReplacements(e) \cup AddingReplacements(e) \cup RewordingReplacements(e)

RECURSIVE IsSubsequence(_, _)
IsSubsequence(short, long) ==
  IF short = <<>>
    THEN TRUE
    ELSE IF long = <<>>
           THEN FALSE
           ELSE IF Head(short) = Head(long)
                  THEN IsSubsequence(Tail(short), Tail(long))
                  ELSE IsSubsequence(short, Tail(long))

Within(list, checks) == SelectSeq(list, LAMBDA i : CheckOf(i) \in checks)

Outside(list, checks) == SelectSeq(list, LAMBDA i : CheckOf(i) \notin checks)

\* which issue an issue is, whatever its message and fix say: its check,
\* its kind and, for a probe issue, its branch
Signature(i) ==
  <<CheckOf(i), i.kind, IF CheckOf(i) = 6 THEN i.message[1] ELSE "">>

Signatures(list) == [j \in 1..Len(list) |-> Signature(list[j])]

\* the claim as stated: a replacement can only take issues away, and the
\* probe issue that stays is of the same branch
MalformedFieldOnlyRemoves ==
  /\ pc # "threw"
  /\ DoneOne =>
       \A r \in Replacements(accounts[1]) :
         /\ ~AccountThrows(r.snap)
         /\ IsSubsequence(Signatures(AccountIssues(r.snap, r.snap.accountId)),
                          Signatures(issues))

\* as the code has it: nothing throws; every replacement leaves the issues
\* of the other checks as they are; within its own checks a replacement of
\* the first kind only takes issues away, one of connected or of an
\* entry's ok only adds, and one of a text or of the probe status keeps
\* their number
MalformedFieldNeverThrows ==
  /\ pc # "threw"
  /\ DoneOne =>
       \A r \in Replacements(accounts[1]) :
         LET new == AccountIssues(r.snap, r.snap.accountId)
         IN /\ ~AccountThrows(r.snap)
            /\ Outside(new, r.checks) = Outside(issues, r.checks)
            /\ r.effect = "removes" =>
                 IsSubsequence(Within(new, r.checks), Within(issues, r.checks))
            /\ r.effect = "adds" =>
                 IsSubsequence(Within(issues, r.checks), Within(new, r.checks))
            /\ r.effect = "rewords" =>
                 Len(Within(new, r.checks)) = Len(Within(issues, r.checks))

\* a running, connected account with a malformed group entry: no issue as
\* given, the runtime issue once connected is lost
MalformedFieldNeverThrowsWitness ==
  /\ DoneOne
  /\ accounts[1].running = Bool(TRUE)
  /\ accounts[1].connected = Bool(TRUE)
  /\ Only(issues, 5) = <<>>
  /\ Len(Only(AccountIssues([accounts[1] EXCEPT !.connected = Undef],
                            accounts[1].accountId), 5)) = 1

(***************************************************************************)
(* C10: the protocol of withTelegramApiErrorLogging.                       *)
(***************************************************************************)
StatusEvents == SelectSeq(events, LAMBDA v : v.who = "setTelegramApiErrorStatus")

LogEvents ==
  SelectSeq(events, LAMBDA v : v.who \in {"logger", "runtime.error", "fallbackLogger"})

HandlerGiven == call.runtime /\ call.handler \in {"returns", "throws"}

\* the logger of the claim: the explicit one, else runtime.error, else the
\* fallback
ClaimedLogger ==
  IF call.logger # "absent"
    THEN "logger"
    ELSE IF call.runtime /\ call.runtimeError # "absent"
           THEN "runtime.error"
           ELSE "fallbackLogger"

\* what holds of every finished call whatever the callbacks do
ProtocolOfCall ==
  /\ call.fn = "resolves" =>
       outcome = [kind |-> "resolved", value |-> call.value] /\ events = <<>>
  /\ call.fn = "rejects" =>
       /\ outcome.kind = "rejected"
       /\ Len(StatusEvents) = Ind(HandlerGiven)
       /\ HandlerGiven =>
            events[1] = Event("setTelegramApiErrorStatus", call.operation, call.value)
       /\ Len(LogEvents) <= 1
       /\ Len(LogEvents) = 1 =>
            /\ call.shouldLog \in {"absent", "true"}
            /\ LogEvents[1] = Event(ClaimedLogger, call.operation, call.value)

\* the claim as stated: a rejected call always ends with the error of fn
RejectsWithOriginalError ==
  wpc = "done" =>
    /\ ProtocolOfCall
    /\ call.fn = "rejects" =>
         outcome = [kind |-> "rejected", value |-> call.value]

\* as the code has it: the error of fn, unless the status handler,
\* shouldLog or the logger throws; then what it threw, the later steps
\* not run
RejectsWithOriginalErrorUnlessCallbackThrows ==
  wpc = "done" =>
    /\ ProtocolOfCall
    /\ call.fn = "rejects" =>
         LET handlerThrows == call.runtime /\ call.handler = "throws"
             shouldLogThrows == call.shouldLog = "throws"
             logs == call.shouldLog \in {"absent", "true"}
             loggerThrows ==
               IF ClaimedLogger = "logger" THEN call.logger = "throws"
               ELSE IF ClaimedLogger = "runtime.error" THEN call.runtimeError = "throws"
               ELSE FALSE
         IN IF handlerThrows
              THEN /\ outcome.value = "thrownByStatusHandler"
                   /\ Len(events) = 1
            ELSE IF shouldLogThrows
              THEN /\ outcome.value = "thrownByShouldLog"
                   /\ LogEvents = <<>>
            ELSE IF logs /\ loggerThrows
              THEN /\ outcome.value = "thrownByLogger"
                   /\ Len(LogEvents) = 1
            ELSE /\ outcome.value = call.value
                 /\ Len(LogEvents) = Ind(logs)

\* fn rejects, the handler is told, runtime.error logs, the error of fn
\* comes back
RejectsWithOriginalErrorWitness ==
  /\ wpc = "done"
  /\ call.fn = "rejects"
  /\ call.logger = "absent"
  /\ Len(events) = 3
  /\ events[1].who = "setTelegramApiErrorStatus"
  /\ events[2].who = "shouldLog"
  /\ events[3].who = "runtime.error"
  /\ outcome = [kind |-> "rejected", value |-> call.value]

=============================================================================
